---------------------------- MODULE Spec2Model ----------------------------
(***************************************************************************)
(* Model of mouse_battery.py: one invocation of main() reads the battery   *)
(* with `solaar show` (with retry), saves the reading to the cache file or *)
(* falls back to the cached record, prints one line and optionally sends a *)
(* desktop notification.  The cache file and the wall clock are the only   *)
(* state that survives an invocation.                                      *)
(***************************************************************************)
EXTENDS Integers, Sequences, FiniteSets

(***************************************************************************)
(* Bounds of the model.                                                    *)
(***************************************************************************)
\* Clock resolution: ticks per second (datetime.now() has sub-second parts,
\* strftime("%S") has not).
TicksPerSec == 2
\* Number of invocations of main() in one behaviour.
MaxRuns == 2
\* Number of times the wall clock advances on its own in one behaviour.
MaxAdvances == 1
\* Largest `retries` argument of get_battery_with_retry tried on its own.
MaxRetries == 3
\* Largest battery value given to format_battery on its own.
FormatMaxB == 99
\* Number of calls of the cache functions tried on their own.
MaxCalls == 3
\* Wall-clock second at which a behaviour starts.
StartSec == 360000

(***************************************************************************)
(* Program constants.                                                      *)
(***************************************************************************)
DefaultRetries == 2
DefaultDelay == 1
SolaarTimeout == 5
DefaultTtl == 24
SecPerHour == 3600
SecPerMin == 60
MinPerHour == 60
HoursPerDay == 24
OkLevel == 50
WarnLevel == 20
AlertLevel == 15
NotifyLevel == 10

(***************************************************************************)
(* Python values that flow through the program: None, an int, a str that   *)
(* is not a timestamp, and a str in the format "%Y-%m-%d %H:%M:%S" (kind   *)
(* "ts", n being the whole second it denotes).                             *)
(***************************************************************************)
PyNone == [t |-> "none", n |-> 0, s |-> ""]
PyInt(i) == [t |-> "int", n |-> i, s |-> ""]
PyStr(str) == [t |-> "str", n |-> 0, s |-> str]
PyTs(sec) == [t |-> "ts", n |-> sec, s |-> ""]

\* Python truthiness of a value (`if ts_str:`, `and timestamp`).
Truthy(v) ==
    CASE v.t = "none" -> FALSE
      [] v.t = "int" -> v.n # 0
      [] v.t = "str" -> v.s # ""
      [] v.t = "ts" -> TRUE

\* datetime.now().strftime("%Y-%m-%d %H:%M:%S"): the clock cut to whole seconds.
Strftime(clock) == PyTs(clock \div TicksPerSec)

\* datetime.strptime(ts_str, "%Y-%m-%d %H:%M:%S") succeeds on a timestamp string only.
StrptimeOk(v) == v.t = "ts"
\* Its result as a clock reading (sub-second part zero).
Strptime(v) == v.n * TicksPerSec

(***************************************************************************)
(* The external status command.  Its stdout is a sequence of characters,   *)
(* the token "Battery:" standing for the eight characters of the label.    *)
(***************************************************************************)
Digits == {"0", "1", "2", "3", "4", "5", "6", "7", "8", "9"}
Spaces == {" "}

SolaarTexts ==
    { <<"Battery:", " ", " ", " ", "8", "5", "%">>,
      <<"x", "Battery:", " ", "x", "%", "Battery:", " ", "5", "%">>,
      <<"Battery:", " ", "2", "5", "0", "%">>,
      <<"Battery:", " ", "1", "0", "%">>,
      <<"Battery:", "8", "5", "%">>,
      <<"Battery:", " ", "4", "2">>,
      <<"x">>,
      <<>> }

SolaarOutcomes ==
    [kind : {"missing", "nonzero", "timeout"}, stdout : {<<>>}]
        \cup [kind : {"ok"}, stdout : SolaarTexts]

\* Seconds the command takes: the timeout is the only bound the code sets.
SolaarElapsed(outcome) == IF outcome.kind = "timeout" THEN SolaarTimeout ELSE 0

NoOutput == [ok |-> FALSE, text |-> <<>>]

\* run_solaar_show: the decoded stdout when the command ran and exited 0, else None.
run_solaar_show(outcome) ==
    IF outcome.kind = "ok" THEN [ok |-> TRUE, text |-> outcome.stdout] ELSE NoOutput

DigitVal(c) ==
    CASE c = "0" -> 0 [] c = "1" -> 1 [] c = "2" -> 2 [] c = "3" -> 3 [] c = "4" -> 4
      [] c = "5" -> 5 [] c = "6" -> 6 [] c = "7" -> 7 [] c = "8" -> 8 [] c = "9" -> 9

\* First index >= i whose character is not in S (Len + 1 when there is none).
RECURSIVE RunEnd(_, _, _)
RunEnd(text, i, S) ==
    IF i <= Len(text) /\ text[i] \in S THEN RunEnd(text, i + 1, S) ELSE i

\* int() of the digits text[from .. to-1].
RECURSIVE ToInt(_, _, _)
ToInt(text, from, to) ==
    IF to <= from THEN 0
    ELSE 10 * ToInt(text, from, to - 1) + DigitVal(text[to - 1])

\* r'Battery:\s+(\d+)%' matches with the label at index i.
MatchAt(text, i) ==
    LET k == RunEnd(text, i + 1, Spaces)
        m == RunEnd(text, k, Digits)
    IN  /\ text[i] = "Battery:"
        /\ k > i + 1
        /\ m > k
        /\ m <= Len(text)
        /\ text[m] = "%"

GroupValue(text, i) ==
    LET k == RunEnd(text, i + 1, Spaces)
        m == RunEnd(text, k, Digits)
    IN  ToInt(text, k, m)

Min(S) == CHOOSE x \in S : \A y \in S : x <= y

\* parse_battery: re.search takes the leftmost match.
parse_battery(output) ==
    IF output.ok /\ output.text # <<>>
    THEN LET starts == {i \in 1..Len(output.text) : MatchAt(output.text, i)}
         IN  IF starts = {} THEN PyNone
             ELSE PyInt(GroupValue(output.text, Min(starts)))
    ELSE PyNone

(***************************************************************************)
(* The cache file.  json.dump / json.load are modelled by what they do: an *)
(* int is written as its decimal digits and read back from them, a str is  *)
(* written and read verbatim.                                              *)
(***************************************************************************)
DigitChar(d) ==
    CASE d = 0 -> "0" [] d = 1 -> "1" [] d = 2 -> "2" [] d = 3 -> "3" [] d = 4 -> "4"
      [] d = 5 -> "5" [] d = 6 -> "6" [] d = 7 -> "7" [] d = 8 -> "8" [] d = 9 -> "9"

RECURSIVE IntToDigits(_)
IntToDigits(i) ==
    IF i < 10 THEN <<DigitChar(i)>>
    ELSE Append(IntToDigits(i \div 10), DigitChar(i % 10))

JNull == [j |-> "null", neg |-> FALSE, digits |-> <<>>, str |-> PyNone]
JNum(i) ==
    [j |-> "number", neg |-> i < 0,
     digits |-> IntToDigits(IF i < 0 THEN 0 - i ELSE i), str |-> PyNone]
JStr(v) == [j |-> "string", neg |-> FALSE, digits |-> <<>>, str |-> v]

\* json.dump of one Python value.
JsonDump(v) ==
    CASE v.t = "none" -> JNull
      [] v.t = "int" -> JNum(v.n)
      [] OTHER -> JStr(v)

\* json.load of one JSON value.
JsonLoad(jv) ==
    CASE jv.j = "null" -> PyNone
      [] jv.j = "number" ->
            LET m == ToInt(jv.digits, 1, Len(jv.digits) + 1)
            IN  PyInt(IF jv.neg THEN 0 - m ELSE m)
      [] jv.j = "string" -> jv.str

\* File contents: no file, text that is not JSON, JSON that is not an object,
\* or a JSON object (a key that is absent reads as None, like a null).
MissingFile == [kind |-> "missing", battery |-> JNull, timestamp |-> JNull]
GarbageFile == [kind |-> "garbage", battery |-> JNull, timestamp |-> JNull]
NonObjectFile == [kind |-> "nonobject", battery |-> JNull, timestamp |-> JNull]
ObjectFile(b, ts) == [kind |-> "object", battery |-> b, timestamp |-> ts]

NoRecord == <<PyNone, PyNone>>

\* timedelta(hours=ttl_hours) in clock ticks.
HoursDelta(ttl_hours) == ttl_hours * SecPerHour * TicksPerSec

\* A faulty variant of NotExpired: the comparison turned round.
NotExpiredInverted(clock, ts, ttl_hours) == clock - ts >= HoursDelta(ttl_hours)

\* A faulty variant of NotExpired: a record exactly ttl hours old counts as expired.
NotExpiredStrict(clock, ts, ttl_hours) == clock - ts < HoursDelta(ttl_hours)

\* The test of line 71: datetime.now() - ts <= timedelta(hours=ttl_hours).
NotExpired(clock, ts, ttl_hours) == clock - ts <= HoursDelta(ttl_hours)

\* load_last_known(ttl_hours) on file contents `file` at clock reading `clock`.
load_last_known(file, clock, ttl_hours) ==
    IF file.kind # "object" THEN NoRecord
    ELSE LET ts_str == JsonLoad(file.timestamp)
             b == JsonLoad(file.battery)
         IN  IF ~Truthy(ts_str) THEN NoRecord
             ELSE IF ~StrptimeOk(ts_str) THEN NoRecord
             ELSE IF NotExpired(clock, Strptime(ts_str), ttl_hours)
                  THEN <<b, ts_str>>
                  ELSE NoRecord

\* What a write can come to: done, open() raised, json.dump raised after
\* open() had truncated the file.
WriteOutcomes == {"ok", "open_fails", "dump_fails"}

\* save_last_known(battery): the file after the call.
save_last_known(file, clock, b, outcome) ==
    CASE outcome = "ok" -> ObjectFile(JsonDump(b), JsonDump(Strftime(clock)))
      [] outcome = "open_fails" -> file
      [] outcome = "dump_fails" -> GarbageFile

(***************************************************************************)
(* Formatting.                                                             *)
(***************************************************************************)
NoTimeInfo == [k |-> "", n |-> 0]

\* human_readable_delta(ts_str) at clock reading `clock`.
human_readable_delta(ts_str, clock) ==
    IF ~StrptimeOk(ts_str) THEN [k |-> "None", n |-> 0]
    ELSE LET delta == clock - Strptime(ts_str)
             minutes == delta \div (SecPerMin * TicksPerSec)
             hours == minutes \div MinPerHour
         IN  IF minutes < 1 THEN [k |-> "just now", n |-> 0]
             ELSE IF minutes < MinPerHour THEN [k |-> "min ago", n |-> minutes]
             ELSE IF hours < HoursPerDay THEN [k |-> "hr ago", n |-> hours]
             ELSE [k |-> "date", n |-> ts_str.n \div SecPerMin]

\* Comparing the battery with an int raises TypeError unless it is a number.
CompareRaises(b) == b.t \notin {"int"}

\* format_battery raises (TypeError at `battery >= 50`).
FormatRaises(b) == b.t # "none" /\ CompareRaises(b)

Color(b) ==
    IF b.n >= OkLevel THEN "32"
    ELSE IF b.n >= WarnLevel THEN "33"
    ELSE "31"

\* A faulty variant of Alert: the marker tied to the warning band.
AlertBelowWarn(b) == IF b.n < WarnLevel THEN " (Low Battery!)" ELSE ""

Alert(b) == IF b.n < AlertLevel THEN " (Low Battery!)" ELSE ""

\* format_battery(battery, timestamp, show_timestamp), where it does not raise.
format_battery(b, ts, show_timestamp, clock) ==
    IF b.t = "none"
    THEN [color |-> "90", body |-> PyNone, alert |-> "", time_info |-> NoTimeInfo]
    ELSE [color |-> Color(b), body |-> b, alert |-> Alert(b),
          time_info |-> IF show_timestamp /\ Truthy(ts)
                        THEN human_readable_delta(ts, clock)
                        ELSE NoTimeInfo]

\* A faulty variant of ShouldNotify: the threshold itself notifies.
ShouldNotifyAtThreshold(notifyArg, b) ==
    notifyArg /\ b.t # "none" /\ b.n <= NotifyLevel

\* The condition of line 197.
ShouldNotify(notifyArg, b) ==
    notifyArg /\ b.t # "none" /\ b.n < NotifyLevel

\* The message of line 198: f"{battery}% remaining!".
Message(b) == [title |-> "Mouse Battery Low", value |-> b, text |-> "% remaining!"]

(***************************************************************************)
(* State.                                                                  *)
(***************************************************************************)
VARIABLES
    pc,             \* position of the invocation in main()
    run,            \* invocations started so far
    advances,       \* times the clock advanced on its own
    now,            \* the wall clock, in ticks
    cache,          \* contents of CACHE_FILE
    notify,         \* args.notify
    ttl,            \* args.ttl
    retries,        \* get_battery_with_retry's retries
    attempt,        \* get_battery_with_retry's loop variable
    battery,        \* main's battery
    timestamp,      \* main's timestamp
    from_cache,     \* main's from_cache
    stdout,         \* lines printed by this invocation
    notifications,  \* notify-send calls of this invocation
    trace,          \* external effects of this invocation, in order
    saved,          \* the last call of save_last_known: value, outcome, clock
    lastLive        \* the last value get_battery_with_retry returned, if any

vars ==
    <<pc, run, advances, now, cache, notify, ttl, retries, attempt, battery,
      timestamp, from_cache, stdout, notifications, trace, saved, lastLive>>

Ev(name, v) == [ev |-> name, val |-> v]

NeverSaved == [val |-> PyNone, outcome |-> "none", at |-> 0]

\* Clock readings a behaviour can start at: on a whole second, and past it.
StartClocks == {StartSec * TicksPerSec, StartSec * TicksPerSec + 1}

\* Values of --ttl tried by main.
TtlArgs == {0, DefaultTtl}

\* Contents the cache file may have before the first invocation.
InitCaches ==
    { MissingFile, GarbageFile, NonObjectFile,
      ObjectFile(JNum(42), JStr(PyTs(StartSec - 2 * SecPerHour))),
      ObjectFile(JNum(5), JStr(PyTs(StartSec - 2 * SecPerHour))),
      ObjectFile(JStr(PyStr("high")), JStr(PyTs(StartSec - 2 * SecPerHour))),
      ObjectFile(JNull, JStr(PyTs(StartSec - 2 * SecPerHour))),
      ObjectFile(JNum(42), JStr(PyTs(StartSec - 25 * SecPerHour))),
      ObjectFile(JNum(42), JStr(PyTs(StartSec + 1 * SecPerHour))),
      ObjectFile(JNum(42), JStr(PyStr("yesterday"))),
      ObjectFile(JNum(42), JNull) }

Init ==
    /\ pc = "idle"
    /\ run = 0
    /\ advances = 0
    /\ now = StartSec * TicksPerSec + 1
    /\ cache \in InitCaches
    /\ notify = FALSE
    /\ ttl = DefaultTtl
    /\ retries = DefaultRetries
    /\ attempt = 1
    /\ battery = PyNone
    /\ timestamp = PyNone
    /\ from_cache = FALSE
    /\ stdout = <<>>
    /\ notifications = <<>>
    /\ trace = <<>>
    /\ saved = NeverSaved
    /\ lastLive = PyNone

(***************************************************************************)
(* main(), step by step.                                                   *)
(***************************************************************************)
\* Lines 156-183: a new process parses its arguments and enters
\* get_battery_with_retry with the default retries and delay.
Start ==
    /\ pc \in {"idle", "done", "crashed"}
    /\ run < MaxRuns
    /\ \E n \in BOOLEAN, h \in TtlArgs :
          /\ notify' = n
          /\ ttl' = h
    /\ run' = run + 1
    /\ pc' = "retry"
    /\ retries' = DefaultRetries
    /\ attempt' = 1
    /\ battery' = PyNone
    /\ timestamp' = PyNone
    /\ from_cache' = FALSE
    /\ stdout' = <<>>
    /\ notifications' = <<>>
    /\ trace' = <<>>
    /\ UNCHANGED <<advances, now, cache, saved, lastLive>>

\* A faulty variant of Attempt: a reading is kept but the loop does not return on it.
AttemptKeepsGoing ==
    /\ pc = "retry"
    /\ attempt <= retries
    /\ \E outcome \in SolaarOutcomes :
          LET b == parse_battery(run_solaar_show(outcome))
              t1 == now + SolaarElapsed(outcome) * TicksPerSec
          IN  /\ battery' = IF b # PyNone THEN b ELSE battery
              /\ lastLive' = IF b # PyNone THEN b ELSE lastLive
              /\ trace' = trace \o <<Ev("solaar", b), Ev("sleep", PyNone)>>
              /\ now' = t1 + DefaultDelay * TicksPerSec
              /\ attempt' = attempt + 1
              /\ UNCHANGED pc
    /\ UNCHANGED <<run, advances, cache, notify, ttl, retries, timestamp,
                   from_cache, stdout, notifications, saved>>

\* Lines 48-56: one pass of the loop of get_battery_with_retry.
Attempt ==
    /\ pc = "retry"
    /\ attempt <= retries
    /\ \E outcome \in SolaarOutcomes :
          LET b == parse_battery(run_solaar_show(outcome))
              t1 == now + SolaarElapsed(outcome) * TicksPerSec
          IN  IF b # PyNone
              THEN /\ battery' = b
                   /\ lastLive' = b
                   /\ pc' = "returned"
                   /\ now' = t1
                   /\ trace' = Append(trace, Ev("solaar", b))
                   /\ UNCHANGED attempt
              ELSE /\ trace' = trace \o <<Ev("solaar", b), Ev("sleep", PyNone)>>
                   /\ now' = t1 + DefaultDelay * TicksPerSec
                   /\ attempt' = attempt + 1
                   /\ UNCHANGED <<battery, lastLive, pc>>
    /\ UNCHANGED <<run, advances, cache, notify, ttl, retries, timestamp,
                   from_cache, stdout, notifications, saved>>

\* Lines 57-58: the loop is over, get_battery_with_retry returns None.
Exhausted ==
    /\ pc = "retry"
    /\ attempt > retries
    /\ battery' = PyNone
    /\ pc' = "returned"
    /\ UNCHANGED <<run, advances, now, cache, notify, ttl, retries, attempt,
                   timestamp, from_cache, stdout, notifications, trace, saved,
                   lastLive>>

\* Lines 186-188: a live reading is saved.
MainSave ==
    /\ pc = "returned"
    /\ battery # PyNone
    /\ \E w \in WriteOutcomes :
          /\ cache' = save_last_known(cache, now, battery, w)
          /\ saved' = [val |-> battery, outcome |-> w, at |-> now]
    /\ timestamp' = Strftime(now)
    /\ trace' = Append(trace, Ev("save", battery))
    /\ pc' = "print"
    /\ UNCHANGED <<run, advances, now, notify, ttl, retries, attempt, battery,
                   from_cache, stdout, notifications, lastLive>>

\* A faulty variant of MainLoad: the value loaded from the cache is saved again.
MainLoadWritesBack ==
    /\ pc = "returned"
    /\ battery = PyNone
    /\ LET r == load_last_known(cache, now, ttl)
       IN  /\ battery' = r[1]
           /\ timestamp' = IF r[2] = PyNone THEN PyStr("unknown") ELSE r[2]
           /\ trace' = Append(trace, Ev("load", r[1]))
           /\ cache' = IF r[1] # PyNone
                       THEN save_last_known(cache, now, r[1], "ok")
                       ELSE cache
    /\ from_cache' = TRUE
    /\ pc' = "print"
    /\ UNCHANGED <<run, advances, now, notify, ttl, retries, attempt,
                   stdout, notifications, saved, lastLive>>

\* Lines 189-193: no live reading, the cache is loaded.
MainLoad ==
    /\ pc = "returned"
    /\ battery = PyNone
    /\ LET r == load_last_known(cache, now, ttl)
       IN  /\ battery' = r[1]
           /\ timestamp' = IF r[2] = PyNone THEN PyStr("unknown") ELSE r[2]
           /\ trace' = Append(trace, Ev("load", r[1]))
    /\ from_cache' = TRUE
    /\ pc' = "print"
    /\ UNCHANGED <<run, advances, now, cache, notify, ttl, retries, attempt,
                   stdout, notifications, saved, lastLive>>

\* A faulty variant of PrintLine: the age is shown for a live reading too.
PrintLineAlwaysAge ==
    /\ pc = "print"
    /\ IF FormatRaises(battery)
       THEN /\ pc' = "crashed"
            /\ UNCHANGED <<stdout, trace>>
       ELSE /\ stdout' = Append(stdout, format_battery(battery, timestamp, TRUE, now))
            /\ trace' = Append(trace, Ev("print", battery))
            /\ pc' = "notify"
    /\ UNCHANGED <<run, advances, now, cache, notify, ttl, retries, attempt,
                   battery, timestamp, from_cache, notifications, saved, lastLive>>

\* Line 195: print(format_battery(...)); an exception ends the process.
PrintLine ==
    /\ pc = "print"
    /\ IF FormatRaises(battery)
       THEN /\ pc' = "crashed"
            /\ UNCHANGED <<stdout, trace>>
       ELSE /\ stdout' = Append(stdout, format_battery(battery, timestamp, from_cache, now))
            /\ trace' = Append(trace, Ev("print", battery))
            /\ pc' = "notify"
    /\ UNCHANGED <<run, advances, now, cache, notify, ttl, retries, attempt,
                   battery, timestamp, from_cache, notifications, saved, lastLive>>

\* Lines 197-198 and send_notification: notify-send may be missing, which is
\* logged and swallowed.
Notify ==
    /\ pc = "notify"
    /\ IF ShouldNotify(notify, battery)
       THEN \E sent \in BOOLEAN :
               /\ notifications' = Append(notifications, Message(battery))
               /\ trace' = Append(trace, Ev(IF sent THEN "notify" ELSE "notify_failed", battery))
       ELSE UNCHANGED <<notifications, trace>>
    /\ pc' = "done"
    /\ UNCHANGED <<run, advances, now, cache, notify, ttl, retries, attempt,
                   battery, timestamp, from_cache, stdout, saved, lastLive>>

\* An hour passes between two invocations.
Tick ==
    /\ pc \in {"idle", "done", "crashed"}
    /\ advances < MaxAdvances
    /\ advances' = advances + 1
    /\ now' = now + SecPerHour * TicksPerSec
    /\ UNCHANGED <<pc, run, cache, notify, ttl, retries, attempt, battery,
                   timestamp, from_cache, stdout, notifications, trace, saved,
                   lastLive>>

Next ==
    \/ Start
    \/ Attempt
    \/ Exhausted
    \/ MainSave
    \/ MainLoad
    \/ PrintLine
    \/ Notify
    \/ Tick

Spec == Init /\ [][Next]_vars

(***************************************************************************)
(* get_battery_with_retry on its own, for every retries up to MaxRetries.  *)
(***************************************************************************)
InitRetry ==
    /\ pc = "retry"
    /\ run = 1
    /\ advances = 0
    /\ now \in StartClocks
    /\ cache = MissingFile
    /\ notify = FALSE
    /\ ttl = DefaultTtl
    /\ retries \in 1..MaxRetries
    /\ attempt = 1
    /\ battery = PyNone
    /\ timestamp = PyNone
    /\ from_cache = FALSE
    /\ stdout = <<>>
    /\ notifications = <<>>
    /\ trace = <<>>
    /\ saved = NeverSaved
    /\ lastLive = PyNone

NextRetry ==
    \/ Attempt
    \/ Exhausted

SpecRetry == InitRetry /\ [][NextRetry]_vars

(***************************************************************************)
(* format_battery on its own, for every battery in 0..FormatMaxB.          *)
(***************************************************************************)
FormatTimestamps ==
    {PyNone, PyStr("unknown"), PyTs(StartSec - 2 * SecPerHour), PyTs(StartSec)}

InitFormat ==
    /\ pc = "print"
    /\ run = 1
    /\ advances = 0
    /\ now \in StartClocks
    /\ cache = MissingFile
    /\ notify = FALSE
    /\ ttl = DefaultTtl
    /\ retries = DefaultRetries
    /\ attempt = 1
    /\ battery \in {PyInt(b) : b \in 0..FormatMaxB} \cup {PyNone}
    /\ timestamp \in FormatTimestamps
    /\ from_cache \in BOOLEAN
    /\ stdout = <<>>
    /\ notifications = <<>>
    /\ trace = <<>>
    /\ saved = NeverSaved
    /\ lastLive = PyNone

NextFormat == PrintLine

SpecFormat == InitFormat /\ [][NextFormat]_vars

(***************************************************************************)
(* save_last_known and load_last_known on their own: any sequence of       *)
(* calls, the clock ticking in between.                                    *)
(***************************************************************************)
\* Records of every age around the TTLs tried, and one from the future.
ApiCaches ==
    { MissingFile, GarbageFile,
      ObjectFile(JNum(42), JStr(PyTs(StartSec))),
      ObjectFile(JNum(42), JStr(PyTs(StartSec - 1))),
      ObjectFile(JNum(42), JStr(PyTs(StartSec - 1 * SecPerHour))),
      ObjectFile(JNum(42), JStr(PyTs(StartSec - 2 * SecPerHour))),
      ObjectFile(JNum(42), JStr(PyTs(StartSec - 24 * SecPerHour))),
      ObjectFile(JNum(42), JStr(PyTs(StartSec - 25 * SecPerHour))),
      ObjectFile(JNum(42), JStr(PyTs(StartSec + 1 * SecPerHour))),
      ObjectFile(JNum(42), JStr(PyTs(StartSec + 2 * SecPerHour))),
      ObjectFile(JNum(42), JStr(PyStr("yesterday"))),
      ObjectFile(JNum(42), JNull) }

ApiTtls == {0 - 1, 0, 1, DefaultTtl}
ApiBatteries == {PyInt(0), PyInt(85), PyInt(250)}

InitApi ==
    /\ pc = "api"
    /\ run = 1
    /\ advances = 0
    /\ now \in StartClocks
    /\ cache \in ApiCaches
    /\ notify = FALSE
    /\ ttl = DefaultTtl
    /\ retries = DefaultRetries
    /\ attempt = 1
    /\ battery = PyNone
    /\ timestamp = PyNone
    /\ from_cache = FALSE
    /\ stdout = <<>>
    /\ notifications = <<>>
    /\ trace = <<>>
    /\ saved = NeverSaved
    /\ lastLive = PyNone

\* save_last_known(b)
CallSave ==
    /\ pc = "api"
    /\ Len(trace) < MaxCalls
    /\ \E b \in ApiBatteries, w \in WriteOutcomes :
          /\ cache' = save_last_known(cache, now, b, w)
          /\ saved' = [val |-> b, outcome |-> w, at |-> now]
          /\ trace' = Append(trace, Ev("save", b))
    /\ UNCHANGED <<pc, run, advances, now, notify, ttl, retries, attempt, battery,
                   timestamp, from_cache, stdout, notifications, lastLive>>

\* battery, timestamp = load_last_known(h)
CallLoad ==
    /\ pc = "api"
    /\ Len(trace) < MaxCalls
    /\ \E h \in ApiTtls :
          LET r == load_last_known(cache, now, h)
          IN  /\ ttl' = h
              /\ battery' = r[1]
              /\ timestamp' = r[2]
              /\ trace' = Append(trace, Ev("load", r[1]))
    /\ UNCHANGED <<pc, run, advances, now, cache, notify, retries, attempt,
                   from_cache, stdout, notifications, saved, lastLive>>

\* The clock moves on by one tick between two calls.
SubTick ==
    /\ pc = "api"
    /\ Len(trace) < MaxCalls
    /\ now' = now + 1
    /\ trace' = Append(trace, Ev("tick", PyNone))
    /\ UNCHANGED <<pc, run, advances, cache, notify, ttl, retries, attempt,
                   battery, timestamp, from_cache, stdout, notifications, saved,
                   lastLive>>

NextApi ==
    \/ CallSave
    \/ CallLoad
    \/ SubTick

SpecApi == InitApi /\ [][NextApi]_vars

(***************************************************************************)
(* Properties.                                                             *)
(***************************************************************************)
EventsOf(name) == {i \in DOMAIN trace : trace[i].ev = name}
LastEvent == IF trace = <<>> THEN "" ELSE trace[Len(trace)].ev

\* C1: whatever the status command does and whatever the cache file holds, a
\* run of main() ends normally having printed exactly one line; no exception
\* escapes.
C1_NoExceptionOneLine ==
    /\ pc # "crashed"
    /\ pc = "done" => Len(stdout) = 1

\* A live reading has been returned and save_last_known has not run yet.
BeforeSave == pc = "returned" /\ battery # PyNone

\* C2 (as claimed): after any sequence of invocations the cache record holds
\* the most recent successful live reading; the fallback path never writes.
C2_CacheHoldsLastLive ==
    /\ (lastLive # PyNone /\ ~BeforeSave) =>
          (cache.kind = "object" /\ JsonLoad(cache.battery) = lastLive)
    /\ from_cache => EventsOf("save") = {}

\* C2 (amended): the cache file changes only in the save of a live reading,
\* to a record of exactly that reading or to a truncated file; when the last
\* write succeeded the record holds the most recent live reading; save is
\* called with the value get_battery_with_retry returned; an invocation that
\* falls back to the cache never saves.
C2_CacheWrittenOnlyFromLive ==
    [][ /\ cache' # cache =>
              /\ BeforeSave
              /\ battery = lastLive
              /\ pc' = "print"
              /\ \/ cache' = GarbageFile
                 \/ cache'.kind = "object" /\ JsonLoad(cache'.battery) = battery
        /\ (saved'.outcome = "ok" /\ ~BeforeSave') =>
              (cache'.kind = "object" /\ JsonLoad(cache'.battery) = lastLive')
        /\ \A i \in EventsOf("save")' :
              /\ trace'[i].val = lastLive'
              /\ i > 1 /\ trace'[i - 1] = Ev("solaar", lastLive')
        /\ from_cache' => EventsOf("save")' = {} ]_vars

\* C2 witness: a second invocation fell back to the cache that the first
\* invocation's live reading was saved to, and left it alone.
C2_Witness ==
    /\ run = 2
    /\ pc = "done"
    /\ from_cache
    /\ saved.outcome = "ok"
    /\ lastLive = PyInt(85)
    /\ JsonLoad(cache.battery) = PyInt(85)
    /\ battery = PyInt(85)

\* C3: when every attempt fails, get_battery_with_retry(retries=N) returns
\* None after exactly N reader calls and exactly N-1 sleeps.
C3_ExhaustionSleeps ==
    (pc = "returned" /\ battery = PyNone) =>
        /\ Cardinality(EventsOf("solaar")) = retries
        /\ Cardinality(EventsOf("sleep")) = retries - 1

\* The last load came after a save that succeeded, less than a second later.
LoadedRightAfterSave ==
    /\ LastEvent = "load"
    /\ saved.outcome = "ok"
    /\ now - saved.at < TicksPerSec

\* C4 (as claimed): save(b) followed immediately by load(ttl) returns b for
\* every ttl >= 0, ttl = 0 included.
C4_RoundTripAnyTtl ==
    (LoadedRightAfterSave /\ ttl >= 0) => battery = saved.val

\* C4 (amended): save(b) followed less than a second later by load(ttl)
\* returns b and the saved timestamp for every ttl >= 1; with ttl = 0 it
\* returns b only when the clock at load reads exactly the whole second that
\* was saved, and (None, None) whenever the clock is between two seconds.
C4_RoundTripPositiveTtl ==
    LoadedRightAfterSave =>
        /\ ttl >= 1 => (battery = saved.val /\ timestamp = PyTs(saved.at \div TicksPerSec))
        /\ ttl = 0 => (battery = saved.val <=> now = (saved.at \div TicksPerSec) * TicksPerSec)
        /\ ttl = 0 /\ now % TicksPerSec # 0 => battery = PyNone /\ timestamp = PyNone

\* C4 witness: 85 saved and loaded back with ttl = 1, the clock between seconds.
C4_Witness ==
    /\ LoadedRightAfterSave
    /\ ttl = 1
    /\ saved.val = PyInt(85)
    /\ battery = PyInt(85)
    /\ now % TicksPerSec # 0

\* The file holds a record with a timestamp in the fixed format, and the
\* last call was a load (so the file and the clock are those it saw).
LoadedRecord ==
    /\ LastEvent = "load"
    /\ cache.kind = "object"
    /\ cache.timestamp.j = "string"
    /\ cache.timestamp.str.t = "ts"

RecordClock == cache.timestamp.str.n * TicksPerSec
Abs(x) == IF x < 0 THEN 0 - x ELSE x
Returned == <<battery, timestamp>> = <<JsonLoad(cache.battery), cache.timestamp.str>>

\* C5 (as claimed): load(ttl) returns the record if and only if its timestamp
\* is within ttl hours of now, records with a future timestamp included; a
\* record older than ttl hours is absent.  (Stated for ttl >= 0, where
\* "within ttl hours" has a meaning.)
C5_WithinTtlOfNow ==
    (LoadedRecord /\ ttl >= 0) =>
        /\ Returned <=> Abs(now - RecordClock) <= ttl * 3600 * TicksPerSec
        /\ now - RecordClock > ttl * 3600 * TicksPerSec => <<battery, timestamp>> = NoRecord

\* C5 (amended): load(ttl) returns the record if and only if it is not older
\* than ttl hours, the age now - timestamp being signed (a record from the
\* future is never too old for a ttl >= 0); otherwise it returns (None, None).
C5_NotOlderThanTtl ==
    LoadedRecord =>
        /\ Returned <=> now - RecordClock <= ttl * 3600 * TicksPerSec
        /\ now - RecordClock > ttl * 3600 * TicksPerSec => <<battery, timestamp>> = NoRecord
        /\ (ttl >= 0 /\ RecordClock > now) => Returned

\* C5 witness: a record exactly one hour old is returned with ttl = 1.
C5_Witness ==
    /\ LoadedRecord
    /\ ttl = 1
    /\ now - RecordClock = 3600 * TicksPerSec
    /\ battery = PyInt(42)

\* C6: the notifier is invoked if and only if --notify was passed and the
\* reported battery is present and below 10, with a message of that value
\* followed by '%'; otherwise it is never invoked.
C6_NotifyIffLow ==
    /\ pc = "done" =>
          (notifications # <<>> <=> (notify /\ battery.t = "int" /\ battery.n < 10))
    /\ pc # "done" => notifications = <<>>
    /\ Len(notifications) <= 1
    /\ \A i \in DOMAIN notifications :
          /\ notifications[i].value = battery
          /\ notifications[i].text = "% remaining!"
    /\ Cardinality(EventsOf("notify") \cup EventsOf("notify_failed")) = Len(notifications)

\* C6 witness: a cached 5 is reported with --notify and the notifier runs.
C6_Witness ==
    /\ pc = "done"
    /\ from_cache
    /\ notify
    /\ battery = PyInt(5)
    /\ notifications = <<Message(PyInt(5))>>

\* The age suffix the formatter is to give a record stamped ts at clock c.
AgeSuffix(ts, c) ==
    LET m == (c - ts * TicksPerSec) \div (60 * TicksPerSec)
    IN  IF m < 1 THEN [k |-> "just now", n |-> 0]
        ELSE IF m < 60 THEN [k |-> "min ago", n |-> m]
        ELSE IF m < 24 * 60 THEN [k |-> "hr ago", n |-> m \div 60]
        ELSE [k |-> "date", n |-> ts \div 60]

C7_Order ==
    /\ \A i \in EventsOf("load") :
          /\ Cardinality({j \in EventsOf("solaar") : j < i}) = retries
          /\ \A j \in EventsOf("solaar") : j < i /\ trace[j].val = PyNone
    /\ \A i \in EventsOf("print") :
          \E j \in EventsOf("save") \cup EventsOf("load") : j < i
    /\ \A i \in EventsOf("solaar") :
          trace[i].val # PyNone =>
             /\ EventsOf("load") = {}
             /\ ~from_cache
             /\ \A j \in EventsOf("save") : j = i + 1 /\ trace[j].val = trace[i].val
             /\ \A j \in EventsOf("print") : j = i + 2 /\ trace[j].val = trace[i].val
             /\ stdout # <<>> =>
                   (stdout[1].body = trace[i].val /\ stdout[1].time_info = NoTimeInfo)

\* At the print of a cached reading the file still holds the record loaded.
LoadedRecordAtPrint ==
    /\ cache.kind = "object"
    /\ cache.timestamp.j = "string"
    /\ cache.timestamp.str.t = "ts"

\* C7: a live reading is saved and printed without an age suffix and the cache
\* is not read; when every attempt failed and the cache holds a record (an
\* integer battery, a timestamp within the TTL), its battery is printed with
\* the age suffix of its timestamp; the cache is loaded only after the retries
\* are exhausted and the line is printed only after the save or the load.
C7_SourceSelection ==
    [][ /\ C7_Order'
        /\ (pc = "print" /\ pc' = "notify" /\ from_cache /\ battery.t = "int") =>
              /\ LoadedRecordAtPrint
              /\ stdout' = <<[color |-> stdout'[1].color,
                              body |-> JsonLoad(cache.battery),
                              alert |-> stdout'[1].alert,
                              time_info |-> AgeSuffix(cache.timestamp.str.n, now)]>>
        /\ (pc = "returned" /\ pc' = "print" /\ from_cache'
              /\ cache.kind = "object" /\ cache.timestamp.j = "string"
              /\ cache.timestamp.str.t = "ts" /\ cache.battery.j = "number"
              /\ now - RecordClock <= ttl * 3600 * TicksPerSec) =>
              battery' = JsonLoad(cache.battery) ]_vars

\* C7 witness: both attempts failed, the cache held {42, two hours ago},
\* ttl = 24: the line shows 42 and "2 hr ago".
C7_Witness ==
    /\ pc = "done"
    /\ from_cache
    /\ ttl = 24
    /\ Cardinality(EventsOf("solaar")) = 2
    /\ stdout = <<[color |-> "33", body |-> PyInt(42), alert |-> "",
                   time_info |-> [k |-> "hr ago", n |-> 2]]>>

\* C8: for every integer battery from 0 the colour is green iff b >= 50,
\* yellow iff 20 <= b < 50, red iff b < 20, and the low-battery marker is
\* there iff b < 15, whatever the timestamp and show_timestamp.
C8_BandsAndMarker ==
    (pc = "notify" /\ battery.t = "int" /\ battery.n >= 0) =>
        /\ Len(stdout) = 1
        /\ stdout[1].color \in {"32", "33", "31"}
        /\ stdout[1].color = "32" <=> battery.n >= 50
        /\ stdout[1].color = "33" <=> (20 <= battery.n /\ battery.n < 50)
        /\ stdout[1].color = "31" <=> battery.n < 20
        /\ stdout[1].alert = " (Low Battery!)" <=> battery.n < 15
        /\ stdout[1].alert \in {"", " (Low Battery!)"}
        /\ stdout[1].body = battery

\* C8 witness: 14 with an age suffix is red and carries the marker.
C8_Witness ==
    /\ pc = "notify"
    /\ battery = PyInt(14)
    /\ from_cache
    /\ stdout # <<>>
    /\ stdout[1].color = "31"
    /\ stdout[1].alert = " (Low Battery!)"
    /\ stdout[1].time_info.k = "hr ago"

InRange(v) == v.t = "none" \/ (v.t = "int" /\ 0 <= v.n /\ v.n <= 100)

\* C9: the battery value of the reading (returned by the reader, saved,
\* loaded, formatted, notified) is always absent or an integer in 0..100.
C9_BatteryInRange ==
    /\ InRange(battery)
    /\ \A i \in DOMAIN trace : InRange(trace[i].val)
    /\ \A i \in DOMAIN stdout : InRange(stdout[i].body)
    /\ \A i \in DOMAIN notifications : InRange(notifications[i].value)

\* C10: get_battery_with_retry returns the value of the first attempt that
\* yields a reading, with no reader call and no sleep after it; it returns
\* None only when all N attempts failed; the reader is never called more than
\* N times.
C10_FirstSuccess ==
    /\ Cardinality(EventsOf("solaar")) <= retries
    /\ \A i \in EventsOf("solaar") :
          trace[i].val # PyNone =>
             /\ \A j \in EventsOf("solaar") \cup EventsOf("sleep") : j <= i
             /\ \A j \in EventsOf("solaar") : j < i => trace[j].val = PyNone
             /\ pc = "returned"
             /\ battery = trace[i].val
    /\ pc = "returned" =>
          IF battery = PyNone
          THEN /\ Cardinality(EventsOf("solaar")) = retries
               /\ \A j \in EventsOf("solaar") : trace[j].val = PyNone
          ELSE /\ LastEvent = "solaar"
               /\ trace[Len(trace)].val = battery

\* C10 witness: with three attempts allowed the second one succeeds and the
\* third is never made.
C10_Witness ==
    /\ pc = "returned"
    /\ retries = 3
    /\ battery = PyInt(85)
    /\ Cardinality(EventsOf("solaar")) = 2
    /\ Cardinality(EventsOf("sleep")) = 1

=============================================================================
